---- MODULE Spec2Model ----
(***************************************************************************)
(* A model of prody/utilities/misctools.py: rangeString and tabulate.      *)
(*                                                                         *)
(* A Python string is a sequence of one-character strings.  rangeString is *)
(* called as in the doctest of line 53, with sep = ',' and rng = ':', so   *)
(* that the returned string can be parsed back without ambiguity.          *)
(* tabulate is modelled with the semantics of the Python 2 the module was  *)
(* written for (map is eager, line 150).                                   *)
(***************************************************************************)
EXTENDS Integers, Sequences, FiniteSets, TLC

VARIABLES pc, args, ints, prev, lint, k, result,
          space, widths, bars, lines, irow, rows, maxlen

vars == <<pc, args, ints, prev, lint, k, result,
          space, widths, bars, lines, irow, rows, maxlen>>

rangeVars == <<ints, prev, lint, k>>
tabVars == <<space, widths, bars, lines, irow, rows, maxlen>>

(* ---------------------------- bounds ----------------------------------- *)
MaxLen == 3
MaxNeg == 2
MaxVal == 2
MaxRows == 3
MaxCols == 3
MaxCells == 4

(* ------------------------- string helpers ------------------------------ *)
Digits == <<"0", "1", "2", "3", "4", "5", "6", "7", "8", "9">>

RECURSIVE StrNat(_)
StrNat(n) == IF n < 10 THEN <<Digits[n + 1]>>
             ELSE StrNat(n \div 10) \o <<Digits[(n % 10) + 1]>>

\* str(n) of a Python integer
Str(n) == IF n < 0 THEN <<"-">> \o StrNat(-n) ELSE StrNat(n)

RECURSIVE Join(_, _)
\* sep.join(parts)
Join(parts, s) ==
    IF Len(parts) = 0 THEN <<>>
    ELSE IF Len(parts) = 1 THEN parts[1]
    ELSE parts[1] \o s \o Join(Tail(parts), s)

\* c * n for a one-character string c
Repeat(c, n) == [j \in 1..(IF n > 0 THEN n ELSE 0) |-> c]

Max(S) == CHOOSE x \in S : \A y \in S : y <= x
Min(S) == CHOOSE x \in S : \A y \in S : x <= y
Range(s) == {s[j] : j \in 1..Len(s)}

(* ---------------------------- rangeString ------------------------------ *)
RECURSIVE SortedSeq(_)
SortedSeq(S) == IF S = {} THEN <<>>
                ELSE <<Min(S)>> \o SortedSeq(S \ {Min(S)})

\* numpy.unique: the sorted distinct values
unique(l) == SortedSeq(Range(l))

\* the filter with its bound off by one: zero is dropped as well
PositiveOnly(a) == SelectSeq(a, LAMBDA x : x > 0)

\* ints[ints > -1]
NonNegative(a) == SelectSeq(a, LAMBDA x : x > -1)

\* the loop body with a gap of 2 still joined to the run
ScanStepWide(runs, p, i) ==
    IF i - p > 2
      THEN Append(runs, <<i>>)
      ELSE [runs EXCEPT ![Len(runs)] = Append(@, i)]

\* the body of the for loop, lines 64-67
ScanStep(runs, p, i) ==
    IF i - p > 1
      THEN Append(runs, <<i>>)
      ELSE [runs EXCEPT ![Len(runs)] = Append(@, i)]

\* one item of the list comprehension of lines 70-71
RenderRun(l, e) ==
    IF Len(l) = 1 THEN Str(l[1])
    ELSE Str(l[1]) \o args.rng \o Str(l[Len(l)] + e)

\* lines 69-71
Render(runs, exc) ==
    LET e == IF exc THEN 1 ELSE 0
    IN  Join([j \in 1..Len(runs) |-> RenderRun(runs[j], e)], args.sep)

RECURSIVE Scan(_, _, _, _)
\* the whole loop of lines 63-68 from position j of a
Scan(a, j, runs, p) ==
    IF j > Len(a) THEN runs
    ELSE Scan(a, j + 1, ScanStep(runs, p, a[j]), a[j])

\* the function as a whole: the returned string, or the exception raised
rangeString(l, exc, pos) ==
    LET u == unique(l)
        f == IF pos /\ u # <<>> /\ u[1] < 0 THEN NonNegative(u) ELSE u
    IN  IF f = <<>> THEN "IndexError"
        ELSE Render(Scan(f, 2, <<<<f[1]>>>>, f[1]), exc)

Vals == ((0 - MaxNeg)..MaxVal) \cup {9, 10}

Lints == UNION {[1..n -> Vals] : n \in 0..MaxLen}

NoTab == /\ space = <<>> /\ widths = <<>> /\ bars = <<>> /\ lines = <<>>
         /\ irow = -1 /\ rows = <<>> /\ maxlen = 0

InitRange ==
    /\ pc = "unique"
    /\ \E l \in Lints, e \in BOOLEAN, p \in BOOLEAN :
          args = [lint |-> l, sep |-> <<",">>, rng |-> <<":">>,
                  exc |-> e, pos |-> p]
    /\ ints = <<>> /\ prev = 0 /\ lint = args.lint /\ k = 0
    /\ result = <<>>
    /\ NoTab

\* line 57
Unique ==
    /\ pc = "unique"
    /\ ints' = unique(lint)
    /\ pc' = "filter"
    /\ UNCHANGED <<args, prev, lint, k, result, tabVars>>

\* lines 58-59; ints[0] of an empty array raises IndexError
Filter ==
    /\ pc = "filter"
    /\ IF args.pos /\ ints = <<>>
         THEN pc' = "IndexError" /\ UNCHANGED ints
         ELSE /\ pc' = "first"
              /\ ints' = IF args.pos /\ ints[1] < 0
                           THEN NonNegative(ints) ELSE ints
    /\ UNCHANGED <<args, prev, lint, k, result, tabVars>>

\* lines 61-62; ints[0] of an empty array raises IndexError
First ==
    /\ pc = "first"
    /\ IF ints = <<>>
         THEN pc' = "IndexError" /\ UNCHANGED <<prev, lint, k>>
         ELSE /\ prev' = ints[1]
              /\ lint' = <<<<ints[1]>>>>
              /\ k' = 2
              /\ pc' = "loop"
    /\ UNCHANGED <<args, ints, result, tabVars>>

\* one iteration of the loop of lines 63-68
Loop ==
    /\ pc = "loop"
    /\ k <= Len(ints)
    /\ lint' = ScanStep(lint, prev, ints[k])
    /\ prev' = ints[k]
    /\ k' = k + 1
    /\ UNCHANGED <<pc, args, ints, result, tabVars>>

\* lines 69-71
Return ==
    /\ pc = "loop"
    /\ k > Len(ints)
    /\ result' = Render(lint, args.exc)
    /\ pc' = "done"
    /\ UNCHANGED <<args, ints, prev, lint, k, tabVars>>

NextRange == Unique \/ Filter \/ First \/ Loop \/ Return

SpecRange == InitRange /\ [][NextRange]_vars

(* ------------------------------ tabulate ------------------------------- *)
IsBlank(s) == \A j \in 1..Len(s) : s[j] = " "

RECURSIVE Chunks(_)
\* TextWrapper._split: the maximal runs of blanks and of non-blanks
Chunks(t) ==
    IF Len(t) = 0 THEN <<>>
    ELSE LET stops == {j \in 2..Len(t) : (t[j] = " ") # (t[1] = " ")}
             n == IF stops = {} THEN Len(t) ELSE Min(stops) - 1
         IN  <<SubSeq(t, 1, n)>> \o Chunks(SubSeq(t, n + 1, Len(t)))

RECURSIVE Concat(_)
Concat(ss) == IF Len(ss) = 0 THEN <<>> ELSE ss[1] \o Concat(Tail(ss))

RECURSIVE WrapChunks(_, _, _)
\* TextWrapper._wrap_chunks with the default options (drop_whitespace,
\* break_long_words); width >= 1; any says whether a line exists already
WrapChunks(chunks, width, any) ==
    IF Len(chunks) = 0 THEN <<>>
    ELSE
      LET c1 == IF IsBlank(chunks[1]) /\ any THEN Tail(chunks) ELSE chunks
          fits == {n \in 0..Len(c1) :
                      Len(Concat(SubSeq(c1, 1, n))) <= width}
          n == Max(fits)
          cur == SubSeq(c1, 1, n)
          rest == SubSeq(c1, n + 1, Len(c1))
          left == width - Len(Concat(cur))
          long == Len(rest) > 0 /\ Len(rest[1]) > width
          cur2 == IF long THEN Append(cur, SubSeq(rest[1], 1, left)) ELSE cur
          rest2 == IF long
                     THEN <<SubSeq(rest[1], left + 1, Len(rest[1]))>>
                             \o Tail(rest)
                     ELSE rest
          cur3 == IF Len(cur2) > 0 /\ IsBlank(cur2[Len(cur2)])
                    THEN SubSeq(cur2, 1, Len(cur2) - 1) ELSE cur2
      IN  IF Len(cur3) > 0
            THEN <<Concat(cur3)>> \o WrapChunks(rest2, width, TRUE)
            ELSE WrapChunks(rest2, width, any)

\* textwrap.wrap(text, width), width >= 1
textwrap(text, width) == WrapChunks(Chunks(text), width, FALSE)

\* the first column left unpadded
ljustNone(item, w) == item

\* item.ljust(w)
ljust(item, w) == item \o Repeat(" ", w - Len(item))

RECURSIVE Sum(_)
Sum(w) == IF Len(w) = 0 THEN 0 ELSE w[1] + Sum(Tail(w))

\* the spacing counted once per column passed
WidthsPerColumn(cols, width, sp) ==
    LET w == <<Max({Len(cols[1][r]) : r \in 1..Len(cols[1])})>>
    IN  Append(w, width - Sum(w) - Len(cols) * sp)

\* lines 142-143
Widths(cols, width, sp) ==
    LET w == <<Max({Len(cols[1][r]) : r \in 1..Len(cols[1])})>>
    IN  Append(w, width - Sum(w) - Len(w) * sp)

\* line 145
Bars(w, sp) == Join([j \in 1..Len(w) |-> Repeat("=", w[j])], sp)

\* the number of tuples zip(*seqs) yields
ZipLen(seqs) == Min({Len(seqs[c]) : c \in 1..Len(seqs)})

\* the list comprehension of lines 150-152 for the cells of one row
WrapRow(items, w) ==
    [c \in 1..Len(items) |->
        IF c > 1 THEN textwrap(items[c], w[c]) ELSE <<ljust(items[c], w[c])>>]

\* lines 153-156
PadRow(rs, w) ==
    LET m == Max({Len(rs[c]) : c \in 1..Len(rs)})
    IN  IF m > 1
          THEN [c \in 1..Len(rs) |->
                  rs[c] \o [j \in 1..(m - Len(rs[c])) |-> Repeat(" ", w[c])]]
          ELSE rs

\* lines 157-158
EmitRow(rs, sp) ==
    [j \in 1..ZipLen(rs) |-> Join([c \in 1..Len(rs) |-> rs[c][j]], sp)]

Cells == {<<>>, <<"a">>, <<"a", "a", " ", "a">>}

Columns == UNION {[1..n -> Cells] : n \in 0..MaxRows}

Tables == {t \in UNION {[1..n -> Columns] : n \in 1..MaxCols} :
              Sum([c \in 1..Len(t) |-> Len(t[c])]) <= MaxCells}

TotalWidths == {5, 7}
Spacings == {1, 2}

NoRange == ints = <<>> /\ prev = 0 /\ lint = <<>> /\ k = 0

InitTab ==
    /\ pc = "widths"
    /\ \E t \in Tables, w \in TotalWidths, s \in Spacings, h \in BOOLEAN :
          args = [cols |-> t, width |-> w, space |-> s, header |-> h]
    /\ space = <<>> /\ widths = <<>> /\ bars = <<>> /\ lines = <<>>
    /\ irow = -1 /\ rows = <<>> /\ maxlen = 0
    /\ result = <<>>
    /\ NoRange

\* lines 141-144; max() of an empty first column raises ValueError
ComputeWidths ==
    /\ pc = "widths"
    /\ IF Len(args.cols[1]) = 0
         THEN pc' = "ValueError" /\ UNCHANGED <<widths, space>>
         ELSE /\ widths' = Widths(args.cols, args.width, args.space)
              /\ space' = Repeat(" ", args.space)
              /\ pc' = "bars"
    /\ UNCHANGED <<args, result, bars, lines, irow, rows, maxlen, rangeVars>>

\* lines 145-146
MakeBars ==
    /\ pc = "bars"
    /\ bars' = Bars(widths, space)
    /\ lines' = <<Bars(widths, space)>>
    /\ pc' = "for"
    /\ UNCHANGED <<args, result, space, widths, irow, rows, maxlen, rangeVars>>

\* lines 148-152: the next tuple of zip(*cols) and its wrapped cells.
\* textwrap raises ValueError for a width <= 0; widths has two entries, so
\* widths[icol] raises IndexError for the third column.
Wrap ==
    /\ pc = "for"
    /\ irow + 1 < ZipLen(args.cols)
    /\ irow' = irow + 1
    /\ IF Len(args.cols) >= 2 /\ widths[2] <= 0
         THEN pc' = "ValueError" /\ UNCHANGED rows
         ELSE IF Len(args.cols) >= 3
           THEN pc' = "IndexError" /\ UNCHANGED rows
           ELSE /\ rows' = WrapRow([c \in 1..Len(args.cols) |->
                                       args.cols[c][irow + 2]], widths)
                /\ pc' = "pad"
    /\ UNCHANGED <<args, result, space, widths, bars, lines, maxlen, rangeVars>>

\* lines 153-156
Pad ==
    /\ pc = "pad"
    /\ maxlen' = Max({Len(rows[c]) : c \in 1..Len(rows)})
    /\ rows' = PadRow(rows, widths)
    /\ pc' = "emit"
    /\ UNCHANGED <<args, result, space, widths, bars, lines, irow, rangeVars>>

\* lines 157-160
Emit ==
    /\ pc = "emit"
    /\ lines' = lines \o EmitRow(rows, space)
                      \o (IF irow = 0 /\ args.header THEN <<bars>> ELSE <<>>)
    /\ pc' = "for"
    /\ UNCHANGED <<args, result, space, widths, bars, irow, rows, maxlen,
                   rangeVars>>

\* lines 161-163; irow is unbound when the loop body never ran
Finish ==
    /\ pc = "for"
    /\ irow + 1 >= ZipLen(args.cols)
    /\ IF irow = -1
         THEN pc' = "NameError" /\ UNCHANGED <<lines, result>>
         ELSE /\ lines' = IF irow > 1 THEN Append(lines, bars) ELSE lines
              /\ result' = Join(lines', <<"\n">>)
              /\ pc' = "done"
    /\ UNCHANGED <<args, space, widths, bars, irow, rows, maxlen, rangeVars>>

NextTab == ComputeWidths \/ MakeBars \/ Wrap \/ Pad \/ Emit \/ Finish

SpecTab == InitTab /\ [][NextTab]_vars

(* ------------------- reading a returned string back -------------------- *)
RECURSIVE SplitAt(_, _)
\* s.split(c) for a one-character separator c
SplitAt(s, c) ==
    IF \A j \in 1..Len(s) : s[j] # c THEN <<s>>
    ELSE LET p == Min({j \in 1..Len(s) : s[j] = c})
         IN  <<SubSeq(s, 1, p - 1)>> \o SplitAt(SubSeq(s, p + 1, Len(s)), c)

DigitVal(ch) == CHOOSE d \in 0..9 : Digits[d + 1] = ch

RECURSIVE ParseNat(_)
ParseNat(s) == IF Len(s) = 0 THEN 0
               ELSE ParseNat(SubSeq(s, 1, Len(s) - 1)) * 10 + DigitVal(s[Len(s)])

\* int(s)
ParseInt(s) == IF Len(s) > 0 /\ s[1] = "-" THEN 0 - ParseNat(Tail(s))
               ELSE ParseNat(s)

\* the items of the returned string, each as the integers it shows
Items == LET its == SplitAt(result, args.sep[1])
         IN  [j \in 1..Len(its) |->
                LET ps == SplitAt(its[j], args.rng[1])
                IN  [q \in 1..Len(ps) |-> ParseInt(ps[q])]]

\* the integers an item stands for
Expand(item) ==
    IF Len(item) = 1 THEN {item[1]}
    ELSE item[1]..(item[2] - (IF args.exc THEN 1 ELSE 0))

Expanded == UNION {Expand(Items[j]) : j \in 1..Len(Items)}

ItemsAscending ==
    \A j \in 1..(Len(Items) - 1) :
        \A x \in Expand(Items[j]), y \in Expand(Items[j + 1]) : x < y

Returned == pc \in {"done", "IndexError"}

(* ------------------------------ claims --------------------------------- *)

\* C1: for every non-empty lint and both values of exc and pos, the call
\* returns a string whose items, split at sep and expanded, give exactly the
\* distinct values of lint (those < 0 removed when pos is true), in
\* ascending order.
C1_RoundTrip ==
    (Returned /\ args.lint # <<>>) =>
        /\ pc = "done"
        /\ Expanded = {v \in Range(args.lint) : ~args.pos \/ v >= 0}
        /\ ItemsAscending

\* C2: in the list of runs built by the scan, consecutive runs are at least
\* 2 apart, every run is a sequence of consecutive integers, and the
\* returned string shows a run of length 1 as the bare integer and a longer
\* run as start, rng, end (end + 1 when exc).
C2_RunMaximality ==
    /\ pc \in {"loop", "done"} =>
          /\ \A j \in 1..(Len(lint) - 1) :
                lint[j + 1][1] - lint[j][Len(lint[j])] >= 2
          /\ \A j \in 1..Len(lint) :
                /\ Len(lint[j]) >= 1
                /\ \A q \in 1..(Len(lint[j]) - 1) :
                      lint[j][q + 1] = lint[j][q] + 1
    /\ pc = "done" =>
          /\ Len(Items) = Len(lint)
          /\ \A j \in 1..Len(lint) :
                Items[j] = IF Len(lint[j]) = 1 THEN <<lint[j][1]>>
                           ELSE <<lint[j][1],
                                  lint[j][Len(lint[j])]
                                     + (IF args.exc THEN 1 ELSE 0)>>

C2_Witness ==
    /\ pc = "done" /\ args.exc
    /\ Len(lint) >= 2
    /\ \E j \in 1..Len(lint) : Len(lint[j]) = 1
    /\ \E j \in 1..Len(lint) : Len(lint[j]) >= 2

\* C3: when lint holds a value >= 0, rangeString(lint, pos=True) equals
\* rangeString of the values of lint that are >= 0, wherever and however
\* many the negative values are; with pos=False no value is dropped and
\* the negative values take part in the runs.
C3_NonNegativeFilter ==
    /\ (Returned /\ args.pos /\ \E v \in Range(args.lint) : v >= 0) =>
          /\ pc = "done"
          /\ result = rangeString(SelectSeq(args.lint, LAMBDA v : v >= 0),
                                  args.exc, TRUE)
          /\ Expanded = {v \in Range(args.lint) : v >= 0}
    /\ (Returned /\ ~args.pos /\ args.lint # <<>>) =>
          /\ pc = "done"
          /\ Expanded = Range(args.lint)
          /\ UNION {Range(lint[j]) : j \in 1..Len(lint)} = Range(args.lint)

C3_Witness ==
    /\ pc = "done" /\ args.pos
    /\ Len(args.lint) >= 3
    /\ args.lint[1] >= 0 /\ args.lint[2] < 0 /\ args.lint[3] < 0
    /\ Len(result) > 0

\* C4: when lint is empty, or pos is true and lint holds only negative
\* values, the call does not end in an index fault on the first element.
C4_NoIndexFault ==
    (args.lint = <<>> \/ (args.pos /\ \A v \in Range(args.lint) : v < 0))
        => pc # "IndexError"

NumCols == Len(args.cols)
NumRows == Len(args.cols[1])
EqualLength == \A c \in 1..NumCols : Len(args.cols[c]) = NumRows
DataRows == IF args.header THEN NumRows - 1 ELSE NumRows

IsBorder(l) == \E j \in 1..Len(l) : l[j] = "="
BorderLines == {j \in 1..Len(lines) : lines[j] = bars}
DataLines == {j \in 1..Len(lines) : lines[j] # bars}

\* the border appended by line 162, as seen in the output
TrailingBorder ==
    /\ lines[Len(lines)] = bars
    /\ Cardinality(BorderLines) = 2 + (IF args.header THEN 1 ELSE 0)

\* C5: with columns of unequal length tabulate never returns a table.
C5_ShapeMismatch ==
    (\E c \in 1..NumCols : Len(args.cols[c]) # NumRows) => pc # "done"

\* C6: after the padding step every column of the row holds the same number
\* of physical lines, the maximum of the cells' line counts and at least 1,
\* also when a cell of a later column wraps to zero lines; every logical row
\* contributes at least one physical line to the output.
C6_Padding ==
    /\ pc = "emit" =>
          /\ maxlen >= 1
          /\ \A c \in 1..Len(rows) : Len(rows[c]) = maxlen
    /\ pc = "for" => Cardinality(DataLines) >= irow + 1

\* C7: the first output line is the border, and the output ends with a
\* trailing border exactly when the table has more than one data row (all
\* rows when header is false, all rows but the first when header is true).
C7_Borders ==
    (pc = "done" /\ EqualLength) =>
        /\ SplitAt(result, "\n")[1] = bars
        /\ TrailingBorder <=> DataRows > 1

\* C8: for any number N >= 1 of equal-length columns with at least one row
\* tabulate does not fail on the column count.
C8_AnyColumnCount ==
    (EqualLength /\ NumRows >= 1) => pc # "IndexError"

\* C9 as stated: the first width is the longest cell of column 0 and the
\* wrap width is width - first width - space * (number of columns passed).
C9_WidthPerColumn ==
    widths # <<>> =>
        /\ widths[1] = Max({Len(args.cols[1][r]) : r \in 1..NumRows})
        /\ widths[2] = args.width - widths[1] - args.space * NumCols

\* C9 amended: the first width is the longest cell of column 0 and the wrap
\* width is width - first width - space, the spacing counted once whatever
\* the number of columns passed.
C9_WidthOnce ==
    widths # <<>> =>
        /\ Len(widths) = 2
        /\ widths[1] = Max({Len(args.cols[1][r]) : r \in 1..NumRows})
        /\ widths[2] = args.width - widths[1] - args.space
        /\ pc = "pad" =>
              \A c \in 2..Len(rows) : \A j \in 1..Len(rows[c]) :
                  Len(rows[c][j]) <= args.width - widths[1] - args.space

C9_Witness ==
    /\ pc = "pad" /\ NumCols = 2 /\ NumRows >= 2
    /\ Len(rows[2]) >= 2

TwoColumnsNarrowFirst ==
    /\ NumCols = 2
    /\ widths # <<>>
    /\ widths[1] < args.width - args.space

\* C10: in a two-column table whose first column is narrower than width
\* minus space every border line has the same length, every physical data
\* line is a column-0 segment of exactly the first width, the spacing and a
\* column-1 segment of at most the second width, and no data line is longer
\* than the border.
C10_LineLength ==
    TwoColumnsNarrowFirst =>
        /\ pc \notin {"ValueError", "IndexError"}
        /\ pc = "emit" =>
              /\ \A j \in 1..Len(rows[1]) : Len(rows[1][j]) = widths[1]
              /\ \A j \in 1..Len(rows[2]) : Len(rows[2][j]) <= widths[2]
        /\ \A j \in 1..Len(lines) :
              IF IsBorder(lines[j])
                THEN /\ lines[j] = bars
                     /\ Len(lines[j]) = widths[1] + args.space + widths[2]
                ELSE /\ Len(lines[j]) >= widths[1] + args.space
                     /\ SubSeq(lines[j], widths[1] + 1,
                               widths[1] + args.space) = space
                     /\ Len(lines[j]) - widths[1] - args.space <= widths[2]
                     /\ Len(lines[j]) <= Len(bars)

C10_Witness ==
    /\ pc = "done" /\ TwoColumnsNarrowFirst
    /\ \E r \in 1..NumRows : Len(args.cols[1][r]) < widths[1]
    /\ \E j \in DataLines : Len(lines[j]) = Len(bars)
    /\ \E j \in DataLines : Len(lines[j]) < Len(bars)
    /\ Cardinality(DataLines) > NumRows

====
